---- MODULE Spec2Model ----
(***************************************************************************)
(* Sudoku board, constraint check, validation and backtracking solver of   *)
(* src/script.js.                                                          *)
(*                                                                         *)
(* A board is the source's 2D array as a tuple of nine rows of nine        *)
(* values: Get(bd, r, c) is bd[r][c], Put(bd, r, c, v) is bd[r][c] = v.    *)
(* 0 = empty.  The recursion of solveSudoku is run as a machine with an    *)
(* explicit stack of frames [r, c, d]: one frame for every invocation that *)
(* found an empty cell, d the loop variable of its for-loop.               *)
(***************************************************************************)
EXTENDS Integers, Sequences, FiniteSets

\* const SIZE = 9 (script.js line 3)
SIZE == 9

\* Bounds of the input families
MaxEdits == 4
MaxPlaced == 2
MaxDigit == 2

Idx == 0 .. (SIZE - 1)
Cells == Idx \X Idx
Digits == 1 .. 9

----------------------------------------------------------------------------
(* Vocabulary of the claims (not code): units, conflicts, completions.     *)

SameBox(p, q) == (p[1] \div 3 = q[1] \div 3) /\ (p[2] \div 3 = q[2] \div 3)

\* the cells other than p that share p's row, column or 3x3 box
Peers(p) == {q \in Cells : q # p /\ (q[1] = p[1] \/ q[2] = p[2] \/ SameBox(p, q))}

RowCells(r) == {<<r, c>> : c \in Idx}
ColCells(c) == {<<r, c>> : r \in Idx}
BoxCells(k) == {<<3 * (k \div 3) + i, 3 * (k % 3) + j>> : i \in 0 .. 2, j \in 0 .. 2}
Units == {RowCells(k) : k \in Idx} \cup {ColCells(k) : k \in Idx} \cup {BoxCells(k) : k \in Idx}

\* board[r][c]
Get(bd, r, c) == bd[r + 1][c + 1]

\* board[r][c] = v
Put(bd, r, c, v) == [bd EXCEPT ![r + 1][c + 1] = v]

At(bd, p) == Get(bd, p[1], p[2])

\* no two non-zero cells of one row, column or box hold the same digit
ConflictFree(bd) ==
    \A u \in Units :
        LET filled == {p \in u : At(bd, p) # 0}
        IN  Cardinality({At(bd, p) : p \in filled}) = Cardinality(filled)

\* every row, column and box is a permutation of 1..9
AllPermutations(bd) == \A u \in Units : {At(bd, p) : p \in u} = Digits

NoZero(bd) == \A p \in Cells : At(bd, p) # 0

EmptyCells(bd) == {p \in Cells : At(bd, p) = 0}

\* the valid completions of bd: the boards that keep bd's non-zero cells, fill
\* its empty cells with digits, and make every unit a permutation of 1..9.
\* Enumerated cell by cell; a partial filling with a conflict has no valid
\* extension, so it is dropped as soon as the conflict shows.
RECURSIVE Completions(_)
Completions(bd) ==
    IF ~ConflictFree(bd) THEN {}
    ELSE IF EmptyCells(bd) = {} THEN (IF AllPermutations(bd) THEN {bd} ELSE {})
    ELSE LET p == CHOOSE q \in EmptyCells(bd) : TRUE
         IN  UNION {Completions(Put(bd, p[1], p[2], d)) : d \in Digits}

\* the 81 values in row-major order
Flat(bd, k) == Get(bd, k \div SIZE, k % SIZE)

\* x is lexicographically no larger than y, read in row-major order
LexLeq(x, y) ==
    \/ x = y
    \/ \E k \in 0 .. (SIZE * SIZE - 1) :
          /\ Flat(x, k) < Flat(y, k)
          /\ \A j \in 0 .. (k - 1) : Flat(x, j) = Flat(y, j)

----------------------------------------------------------------------------
(* Input families.                                                         *)

\* PUZZLES[0] (script.js line 156), solved
SolvedRows ==
    << <<5, 3, 4, 6, 7, 8, 9, 1, 2>>,
       <<6, 7, 2, 1, 9, 5, 3, 4, 8>>,
       <<1, 9, 8, 3, 4, 2, 5, 6, 7>>,
       <<8, 5, 9, 7, 6, 1, 4, 2, 3>>,
       <<4, 2, 6, 8, 5, 3, 7, 9, 1>>,
       <<7, 1, 3, 9, 2, 4, 8, 5, 6>>,
       <<9, 6, 1, 5, 3, 7, 2, 8, 4>>,
       <<2, 8, 7, 4, 1, 9, 6, 3, 5>>,
       <<3, 4, 5, 2, 8, 6, 1, 7, 9>> >>

\* the 9x9 array whose entry (r, c) is f[<<r, c>>]
RowOf(f, r) ==
    <<f[<<r, 0>>], f[<<r, 1>>], f[<<r, 2>>], f[<<r, 3>>], f[<<r, 4>>], f[<<r, 5>>], f[<<r, 6>>], f[<<r, 7>>], f[<<r, 8>>]>>
Array(f) ==
    <<RowOf(f, 0), RowOf(f, 1), RowOf(f, 2), RowOf(f, 3), RowOf(f, 4), RowOf(f, 5), RowOf(f, 6), RowOf(f, 7), RowOf(f, 8)>>

SolvedBoard == SolvedRows

EmptyBoard == Array([p \in Cells |-> 0])

\* Cells the user edits on the solved grid.  (2,4) (2,5) (5,4) (5,5) hold
\* 4 2 / 2 4 and (0,3) (0,4) hold 6 7: swapping a pair keeps the row's digits.
EditCells == {<<2, 4>>, <<2, 5>>, <<5, 4>>, <<5, 5>>, <<0, 3>>, <<0, 4>>}

\* the other edit cell of p's row
Partner(p) == CHOOSE q \in EditCells : q[1] = p[1] /\ q # p

\* bd with the cells of e overwritten: "blank" clears, "swap" types the partner's digit
Edited(e) ==
    Array([p \in Cells |->
             IF p \in DOMAIN e
             THEN (IF e[p] = "blank" THEN 0 ELSE At(SolvedBoard, Partner(p)))
             ELSE At(SolvedBoard, p)])

\* the solved grid with at most MaxEdits edited cells
DenseBoards ==
    UNION {{Edited(e) : e \in [E -> {"blank", "swap"}]} :
           E \in {X \in SUBSET EditCells : Cardinality(X) <= MaxEdits}}

\* Cells of an otherwise empty board the user types into: (0,5) shares only the
\* row, (4,0) only the column, (1,1) only the box of (0,0); (8,8) shares nothing.
PlaceCells == {<<0, 0>>, <<0, 5>>, <<4, 0>>, <<1, 1>>, <<8, 8>>}

Placed(e) ==
    Array([p \in Cells |-> IF p \in DOMAIN e THEN e[p] ELSE 0])

\* the empty board with at most MaxPlaced digits of 1..MaxDigit typed in
SparseBoards ==
    UNION {{Placed(e) : e \in [E -> 1 .. MaxDigit]} :
           E \in {X \in SUBSET PlaceCells : Cardinality(X) <= MaxPlaced}}

----------------------------------------------------------------------------
(* The program.                                                            *)

VARIABLES
    inputs,    \* the values of the 81 <input> elements, as getBoard() reads them
    invalid,   \* the cells whose input carries the class 'invalid'
    b,         \* validateBoard's local array
    board,     \* the array solveSudoku works on (onSolve's local board)
    copy,      \* the caller's snapshot taken before solveSudoku is called
    stack,     \* solveSudoku's activation frames [r, c, d], innermost last
    pc,        \* "idle", "returned" (isSafe gave its result), or the solver's "call", "loop", "return"
    res,       \* the value the innermost finished solveSudoku call returned
    caller,    \* who called solveSudoku: "onSolve" or "direct"
    ret        \* what the last finished top-level call returned: [op, ...]

vars == <<inputs, invalid, b, board, copy, stack, pc, res, caller, ret>>

\* script.js 45-52
getBoard == inputs

\* script.js 83-85
clearHighlights == {}

isSafeNoCol(bd, r, c, val) ==
    /\ \A j \in 0 .. (SIZE - 1) : Get(bd, r, j) # val
    /\ LET br == (r \div 3) * 3
           bc == (c \div 3) * 3
       IN  \A i \in 0 .. 2, j \in 0 .. 2 : Get(bd, br + i, bc + j) # val

isSafeNoBox(bd, r, c, val) ==
    /\ \A j \in 0 .. (SIZE - 1) : Get(bd, r, j) # val
    /\ \A i \in 0 .. (SIZE - 1) : Get(bd, i, c) # val

isSafeSkipSelf(bd, r, c, val) ==
    /\ \A j \in 0 .. (SIZE - 1) : j = c \/ Get(bd, r, j) # val
    /\ \A i \in 0 .. (SIZE - 1) : i = r \/ Get(bd, i, c) # val
    /\ LET br == (r \div 3) * 3
           bc == (c \div 3) * 3
       IN  \A i \in 0 .. 2, j \in 0 .. 2 :
              (br + i = r /\ bc + j = c) \/ Get(bd, br + i, bc + j) # val

\* script.js 88-98
isSafe(bd, r, c, val) ==
    /\ \A j \in 0 .. (SIZE - 1) : Get(bd, r, j) # val
    /\ \A i \in 0 .. (SIZE - 1) : Get(bd, i, c) # val
    /\ LET br == (r \div 3) * 3
           bc == (c \div 3) * 3
       IN  \A i \in 0 .. 2, j \in 0 .. 2 : Get(bd, br + i, bc + j) # val

RestoreSkipped(bd, r, c, v) == bd

\* script.js 125: b[r][c] = v
Restore(bd, r, c, v) == Put(bd, r, c, v)

\* script.js 120-125: one iteration of validateBoard's loops on st = [b, valid, invalid]
ValidateCell(st, r, c) ==
    LET v == Get(st.b, r, c)
    IN  IF v = 0 THEN st
        ELSE LET blanked == Put(st.b, r, c, 0)
                 ok == isSafe(blanked, r, c, v)
             IN  [b |-> Restore(blanked, r, c, v),
                  valid |-> st.valid /\ ok,
                  invalid |-> IF ok THEN st.invalid ELSE st.invalid \cup {<<r, c>>}]

\* script.js 119-126: the inner loop, iterations c, c+1, ..., 8 of row r
\* (st.valid is always a boolean: the second disjunct only makes the
\* accumulated state be evaluated at every iteration, as the loop does)
RECURSIVE ValidateCols(_, _, _)
ValidateCols(st, r, c) ==
    IF c >= SIZE \/ st.valid \notin BOOLEAN THEN st
    ELSE ValidateCols(ValidateCell(st, r, c), r, c + 1)

\* script.js 118-127: the outer loop, iterations r, r+1, ..., 8
RECURSIVE ValidateRows(_, _)
ValidateRows(st, r) ==
    IF r >= SIZE \/ st.valid \notin BOOLEAN THEN st
    ELSE ValidateRows(ValidateCols(st, r, 0), r + 1)

\* script.js 114-130: the state validateBoard leaves: its array, its return value, the flagged cells
validateBoard == ValidateRows([b |-> getBoard, valid |-> TRUE, invalid |-> clearHighlights], 0)

NoPos == <<>>

findEmptyLast(bd) ==
    LET empty == {k \in 0 .. (SIZE * SIZE - 1) : Get(bd, k \div SIZE, k % SIZE) = 0}
    IN  IF empty = {} THEN NoPos
        ELSE LET k == CHOOSE m \in empty : \A n \in empty : m >= n
             IN  <<k \div SIZE, k % SIZE>>

\* script.js 133-136: the first empty cell in row-major order, or null (NoPos)
findEmpty(bd) ==
    LET empty == {k \in 0 .. (SIZE * SIZE - 1) : Get(bd, k \div SIZE, k % SIZE) = 0}
    IN  IF empty = {} THEN NoPos
        ELSE LET k == CHOOSE m \in empty : \A n \in empty : m <= n
             IN  <<k \div SIZE, k % SIZE>>

Top == stack[Len(stack)]
Rest == SubSeq(stack, 1, Len(stack) - 1)

NoRet == [op |-> "none"]

\* the page after the user has edited the solved grid
Init ==
    /\ inputs \in DenseBoards
    /\ invalid = {}
    /\ b = EmptyBoard
    /\ board = EmptyBoard
    /\ copy = EmptyBoard
    /\ stack = <<>>
    /\ pc = "idle"
    /\ res = FALSE
    /\ caller = "none"
    /\ ret = NoRet

\* the page after the user has typed digits into a cleared board, or edited the solved grid
InitProbe ==
    /\ inputs \in SparseBoards \cup DenseBoards
    /\ invalid = {}
    /\ b = EmptyBoard
    /\ board = EmptyBoard
    /\ copy = EmptyBoard
    /\ stack = <<>>
    /\ pc = "idle"
    /\ res = FALSE
    /\ caller = "none"
    /\ ret = NoRet

\* script.js 88-98: a caller of the core applies isSafe to the board, a cell and a digit
CallIsSafe(r, c, d) ==
    /\ pc = "idle"
    /\ ret' = [op |-> "isSafe", r |-> r, c |-> c, d |-> d,
               value |-> isSafe(getBoard, r, c, d)]
    /\ pc' = "returned"
    /\ UNCHANGED <<inputs, invalid, b, board, copy, stack, res, caller>>

\* the caller has used isSafe's result
Resume ==
    /\ pc = "returned"
    /\ pc' = "idle"
    /\ ret' = NoRet
    /\ UNCHANGED <<inputs, invalid, b, board, copy, stack, res, caller>>

\* script.js 216, 114-130: the Validate button.  ret.before is what the call
\* before this one returned, when that was a validateBoard call too.
ClickValidate ==
    /\ pc = "idle"
    /\ LET st == validateBoard
       IN  /\ b' = st.b
           /\ invalid' = st.invalid
           /\ ret' = [op |-> "validateBoard", value |-> st.valid, flagged |-> st.invalid,
                      before |-> IF ret.op = "validateBoard"
                                 THEN <<ret.value, ret.flagged>> ELSE <<>>]
    /\ UNCHANGED <<inputs, board, copy, stack, pc, res, caller>>

\* script.js 217, 187-194: the Solve button, up to the call of solveSudoku
ClickSolve ==
    /\ pc = "idle"
    /\ LET st == validateBoard
       IN  /\ b' = st.b
           /\ invalid' = st.invalid
           /\ IF ~st.valid
              THEN /\ ret' = [op |-> "onSolve", value |-> "Fix conflicts first"]
                   /\ UNCHANGED <<board, copy, pc, caller>>
              ELSE /\ board' = getBoard
                   /\ copy' = getBoard
                   /\ pc' = "call"
                   /\ caller' = "onSolve"
                   /\ ret' = NoRet
    /\ UNCHANGED <<inputs, stack, res>>

\* script.js 139: a caller of the core snapshots the board and calls solveSudoku
\* on it, with no validation before
CallSolve ==
    /\ pc = "idle"
    /\ board' = getBoard
    /\ copy' = getBoard
    /\ pc' = "call"
    /\ caller' = "direct"
    /\ ret' = NoRet
    /\ UNCHANGED <<inputs, invalid, b, stack, res>>

\* script.js 140-142: entry of an invocation
Enter ==
    /\ pc = "call"
    /\ LET pos == findEmpty(board)
       IN  IF pos = NoPos
           THEN /\ res' = TRUE
                /\ pc' = "return"
                /\ UNCHANGED stack
           ELSE /\ stack' = Append(stack, [r |-> pos[1], c |-> pos[2], d |-> 1])
                /\ pc' = "loop"
                /\ UNCHANGED res
    /\ UNCHANGED <<inputs, invalid, b, board, copy, caller, ret>>

\* script.js 143-146: a safe digit is placed and the solver recurses
Place ==
    /\ pc = "loop"
    /\ Top.d <= 9
    /\ isSafe(board, Top.r, Top.c, Top.d)
    /\ board' = Put(board, Top.r, Top.c, Top.d)
    /\ pc' = "call"
    /\ UNCHANGED <<inputs, invalid, b, copy, stack, res, caller, ret>>

\* script.js 143-144: an unsafe digit is passed over
Skip ==
    /\ pc = "loop"
    /\ Top.d <= 9
    /\ ~isSafe(board, Top.r, Top.c, Top.d)
    /\ stack' = Append(Rest, [Top EXCEPT !.d = Top.d + 1])
    /\ UNCHANGED <<inputs, invalid, b, board, copy, pc, res, caller, ret>>

\* script.js 143, 150: all nine digits tried, return false
Exhausted ==
    /\ pc = "loop"
    /\ Top.d > 9
    /\ stack' = Rest
    /\ res' = FALSE
    /\ pc' = "return"
    /\ UNCHANGED <<inputs, invalid, b, board, copy, caller, ret>>

\* script.js 146: the recursive call returned true, return true
Propagate ==
    /\ pc = "return"
    /\ stack # <<>>
    /\ res
    /\ stack' = Rest
    /\ UNCHANGED <<inputs, invalid, b, board, copy, pc, res, caller, ret>>

UndoOmitted(bd, r, c) == bd

\* script.js 147: board[r][c] = 0
Undo(bd, r, c) == Put(bd, r, c, 0)

NextDigitStuck(d) == d

NextDigitGivesUp(d) == 10

\* script.js 143: d++
NextDigit(d) == d + 1

\* script.js 146-147, 143: the recursive call returned false, backtrack and go on
Backtrack ==
    /\ pc = "return"
    /\ stack # <<>>
    /\ ~res
    /\ board' = Undo(board, Top.r, Top.c)
    /\ stack' = Append(Rest, [Top EXCEPT !.d = NextDigit(Top.d)])
    /\ pc' = "loop"
    /\ UNCHANGED <<inputs, invalid, b, copy, res, caller, ret>>

\* script.js 55-69: the inputs take the array's values
setBoard(bd) == bd

\* script.js 194-200: solveSudoku returned to onSolve, which ends
FinishOnSolve ==
    /\ pc = "return"
    /\ stack = <<>>
    /\ caller = "onSolve"
    /\ inputs' = setBoard(IF res THEN board ELSE copy)
    /\ ret' = [op |-> "onSolve", value |-> IF res THEN "Solved!" ELSE "No solution found"]
    /\ pc' = "idle"
    /\ board' = EmptyBoard
    /\ copy' = EmptyBoard
    /\ UNCHANGED <<invalid, b, stack, res, caller>>

\* solveSudoku returned to the caller of the core, which drops its arrays
FinishDirect ==
    /\ pc = "return"
    /\ stack = <<>>
    /\ caller = "direct"
    /\ pc' = "idle"
    /\ board' = EmptyBoard
    /\ copy' = EmptyBoard
    /\ UNCHANGED <<inputs, invalid, b, stack, res, caller, ret>>

SolverStep == Enter \/ Place \/ Skip \/ Exhausted \/ Propagate \/ Backtrack

Next ==
    \/ ClickSolve
    \/ CallSolve
    \/ SolverStep
    \/ FinishOnSolve
    \/ FinishDirect

Spec == Init /\ [][Next]_vars

\* the script runs to completion: a started solveSudoku keeps executing
FairSpec == Init /\ [][Next]_vars /\ WF_vars(SolverStep)

ProbeCells == PlaceCells \cup EditCells

NextProbe ==
    \/ \E p \in ProbeCells, d \in Digits : CallIsSafe(p[1], p[2], d)
    \/ Resume
    \/ ClickValidate

ProbeSpec == InitProbe /\ [][NextProbe]_vars

----------------------------------------------------------------------------
(* The claims.                                                             *)

\* the top-level solveSudoku call has just returned
Returned == pc = "return" /\ stack = <<>>

\* the digit d is held by a cell of p's row, column or box other than p
Elsewhere(bd, p, d) == \E q \in Peers(p) : At(bd, q) = d

\* some digit was safe at the first empty cell of bd: the search placed it
FirstCellHadChoice(bd) ==
    \E p \in EmptyCells(bd) :
        /\ \A q \in EmptyCells(bd) : p[1] * SIZE + p[2] <= q[1] * SIZE + q[2]
        /\ \E d \in Digits : ~Elsewhere(bd, p, d)

\* C1 as stated: isSafe(B, r, c, d) is false exactly when d is held by another
\* cell of the row, the column or the box of (r, c), whatever (r, c) itself holds.
C1_OnlyOtherCells ==
    ret.op = "isSafe" =>
        (ret.value = FALSE <=> Elsewhere(inputs, <<ret.r, ret.c>>, ret.d))

\* C1 amended: isSafe(B, r, c, d) is false exactly when d is held by some cell of
\* the row, the column or the box of (r, c), the cell (r, c) itself included.
C1_AnyCellOfTheUnits ==
    ret.op = "isSafe" =>
        (ret.value = FALSE <=>
            \/ At(inputs, <<ret.r, ret.c>>) = ret.d
            \/ Elsewhere(inputs, <<ret.r, ret.c>>, ret.d))

\* isSafe was asked about the digit the cell itself holds, held by no other cell of its units
C1_Witness ==
    /\ ret.op = "isSafe"
    /\ At(inputs, <<ret.r, ret.c>>) = ret.d
    /\ ~Elsewhere(inputs, <<ret.r, ret.c>>, ret.d)
    /\ ret.value = FALSE

\* the cells validateBoard is to flag: a non-zero digit that another cell of the
\* row, column or box holds too
Conflicting(bd) == {p \in Cells : At(bd, p) # 0 /\ Elsewhere(bd, p, At(bd, p))}

\* C5: validateBoard flags exactly the cells whose non-zero digit is held by another
\* cell of their row, column or box, and returns valid exactly when it flags no
\* cell (so the all-zero board is valid with nothing flagged, and two equal digits
\* in one row of an otherwise empty board are invalid with those two cells flagged).
C5_FlagsExactlyConflicts ==
    ret.op = "validateBoard" =>
        /\ ret.flagged = Conflicting(inputs)
        /\ invalid = ret.flagged
        /\ ret.value = (ret.flagged = {})

\* validateBoard ran on a board holding nothing but two equal digits in one row,
\* returned invalid and flagged those two cells
C5_Witness ==
    /\ ret.op = "validateBoard"
    /\ ret.value = FALSE
    /\ \E p, q \in Cells :
          /\ p # q
          /\ p[1] = q[1]
          /\ At(inputs, p) # 0
          /\ At(inputs, p) = At(inputs, q)
          /\ Cells \ EmptyCells(inputs) = {p, q}
          /\ ret.flagged = {p, q}

\* C6: validateBoard leaves no trace on the board: its array ends equal to the
\* board it read, every blanked cell restored, and a validateBoard call that
\* follows another on the unmodified board returns the same validity and flags
\* the same cells.
C6_ValidateLeavesBoard ==
    ret.op = "validateBoard" =>
        /\ b = inputs
        /\ ret.before # <<>> => ret.before = <<ret.value, ret.flagged>>

\* a second validateBoard call in a row has returned, on a board with conflicts
\* (so cells were blanked and restored in both calls)
C6_Witness ==
    /\ ret.op = "validateBoard"
    /\ ret.before # <<>>
    /\ ret.flagged # {}
    /\ b = inputs

\* the solver is running
Solving == pc \in {"call", "loop", "return"}

\* C2 as stated: whenever solveSudoku returns true, the board has no 0 and every
\* row, column and box is a permutation of 1..9.
C2_TrueMeansSolved ==
    (Returned /\ res) => NoZero(board) /\ AllPermutations(board)

\* C2 amended: whenever solveSudoku, called on a conflict-free board, returns
\* true, the board has no 0 and every row, column and box is a permutation of
\* 1..9; in every case a true return leaves no 0 on the board.
C2_TrueMeansSolvedIfConflictFree ==
    (Returned /\ res) =>
        /\ NoZero(board)
        /\ ConflictFree(copy) => AllPermutations(board)

\* solveSudoku returned true on a conflict-free board that had several empty cells
C2_Witness ==
    /\ Returned
    /\ res
    /\ ConflictFree(copy)
    /\ Cardinality(EmptyCells(copy)) >= 3
    /\ AllPermutations(board)

\* C3: on a conflict-free board solveSudoku returns true exactly when some
\* assignment of digits to the empty cells makes every row, column and box a
\* permutation of 1..9, and false exactly when there is none.
C3_TrueIffCompletable ==
    (Returned /\ ConflictFree(copy)) => (res <=> Completions(copy) # {})

\* solveSudoku returned false on a conflict-free board without completion, after
\* placing digits: a digit was safe at the first empty cell
C3_Witness ==
    /\ Returned
    /\ ~res
    /\ caller = "direct"
    /\ ConflictFree(copy)
    /\ Completions(copy) = {}
    /\ FirstCellHadChoice(copy)

\* some row of bd holds a digit twice
RowRepeats(bd, r) ==
    \E c1, c2 \in Idx : c1 # c2 /\ Get(bd, r, c1) # 0 /\ Get(bd, r, c1) = Get(bd, r, c2)

\* every two equal digits of bd that share a row, column or box lie in row r
ConfinedToRow(bd, r) ==
    \A p \in Cells : \A q \in Peers(p) :
        (At(bd, p) # 0 /\ At(bd, p) = At(bd, q)) => (p[1] = r /\ q[1] = r)

\* C4 as stated: solveSudoku called on a board with two identical digits in one
\* row returns false.
C4_RowRepeatMeansFalse ==
    (Returned /\ \E r \in Idx : RowRepeats(copy, r)) => ~res

\* C4 amended: solveSudoku called on a board with two identical digits in one
\* row, whose equal digits sharing a row, column or box all lie in that row,
\* returns false.
C4_LoneRowRepeatMeansFalse ==
    (Returned /\ \E r \in Idx : RowRepeats(copy, r) /\ ConfinedToRow(copy, r)) => ~res

\* solveSudoku returned false on such a board after placing digits
C4_Witness ==
    /\ Returned
    /\ ~res
    /\ \E r \in Idx : RowRepeats(copy, r) /\ ConfinedToRow(copy, r)
    /\ FirstCellHadChoice(copy)

\* C7: if the board is conflict-free when solveSudoku is called, it is
\* conflict-free in every state of the search, after each placement and each undo
\* at every depth.
C7_SearchKeepsConflictFree ==
    (Solving /\ ConflictFree(copy)) => ConflictFree(board)

\* the search on a conflict-free board, two levels deep, has just undone a placement:
\* the cell is empty again and the digit before the current one was safe
C7_Witness ==
    /\ pc = "loop"
    /\ Len(stack) >= 2
    /\ ConflictFree(copy)
    /\ Get(board, Top.r, Top.c) = 0
    /\ Top.d > 1
    /\ ~Elsewhere(board, <<Top.r, Top.c>>, Top.d - 1)

\* C8: every level of the search works on the first empty cell in row-major
\* order, with digits tried in ascending order and the first success kept: on a
\* conflict-free board with a completion, the board solveSudoku leaves is the
\* completion that is lexicographically smallest in row-major order.
C8_FirstCellSmallestCompletion ==
    /\ pc = "loop" =>
          /\ Get(board, Top.r, Top.c) = 0
          /\ \A q \in EmptyCells(board) : Top.r * SIZE + Top.c <= q[1] * SIZE + q[2]
    /\ (Returned /\ res /\ ConflictFree(copy)) =>
          /\ board \in Completions(copy)
          /\ \A x \in Completions(copy) : LexLeq(board, x)

\* solveSudoku returned true on a conflict-free board with more than one completion
C8_Witness ==
    /\ Returned
    /\ res
    /\ ConflictFree(copy)
    /\ Cardinality(Completions(copy)) >= 2

\* C9: every call of solveSudoku returns: once the solver runs, the top-level
\* call eventually returns true or false.
C9_SolveReturns == Solving ~> Returned

\* solveSudoku returned true after backtracking: the first empty cell ended with
\* a larger digit than one that was safe there at the start
C9_Witness ==
    /\ Returned
    /\ res
    /\ \E p \in EmptyCells(copy) :
          /\ \A q \in EmptyCells(copy) : p[1] * SIZE + p[2] <= q[1] * SIZE + q[2]
          /\ \E d \in Digits : d < At(board, p) /\ ~Elsewhere(copy, p, d)

\* C10: whenever solveSudoku returns false, the board is cell for cell the board
\* it was called with, so the snapshot onSolve restores equals the board the
\* solver left.
C10_FalseLeavesBoard ==
    (Returned /\ ~res) => board = copy

\* solveSudoku returned false to onSolve after placing and clearing digits
C10_Witness ==
    /\ Returned
    /\ ~res
    /\ caller = "onSolve"
    /\ board = copy
    /\ FirstCellHadChoice(copy)

====
